---- MODULE Spec2Model ----
(***************************************************************************)
(* Sentence-embedding inference of inference/sentence-transformers.ipynb:  *)
(* TFSentenceTransformer (forward pass, masked mean pooling, optional L2   *)
(* normalisation) and E2ESentenceTransformer (tokenizer in front of it).   *)
(*                                                                         *)
(* Numbers.  A float is a triple <<n, d, r>> standing for (n/d)*sqrt(r):   *)
(* exact arithmetic on rationals and quadratic surds, so that the square   *)
(* root of tf.linalg.normalize is computed and not assumed.  d = 0 marks   *)
(* the IEEE special values: <<0,0,1>> is NaN, <<1,0,1>> is +Inf and        *)
(* <<-1,0,1>> is -Inf.  Rounding is not modelled.                          *)
(*                                                                         *)
(* Tensors.  A tensor is a record [dtype, v, err]: v is a nested sequence  *)
(* (rank 2: rows of scalars, rank 3: rows of tokens of scalars); err is    *)
(* the exception a TensorFlow op raised ("" when it returned a tensor).    *)
(***************************************************************************)
EXTENDS Integers, Sequences, FiniteSets, TLC

VARIABLES
    variant,            \* which text of the source runs: "notebook" or "part_000"
    pc,                 \* position inside the running call
    inputs,             \* the `inputs` argument of TFSentenceTransformer.call
    normalize_arg,      \* the `normalize` argument of TFSentenceTransformer.call
    last_hidden_state,  \* what the pretrained model's forward pass answers
    model_output,       \* local of call: self.model(inputs)
    embeddings,         \* local of call: the pooled, then normalised rows
    pooled,             \* what mean_pooling returned to call (kept for the properties)
    result,             \* what the call returned to its caller
    error,              \* the exception that left the call ("" when none)
    stages,             \* the stages run so far, in order
    history,            \* earlier calls of the same layer object
    text,               \* E2ESentenceTransformer.call: the raw sentences
    tokenized,          \* E2ESentenceTransformer.call: the tokenizer's output
    refs                \* which tensor object each name is bound to

vars == <<variant, pc, inputs, normalize_arg, last_hidden_state, model_output,
          embeddings, pooled, result, error, stages, history, text, tokenized, refs>>

----------------------------------------------------------------------------
(* Bounds of the model. *)

MaxB == 3
MaxT == 3
MaxH == 3
MaxCells == 6
MaxCalls == 3

\* Positions appended to a sequence as padding: at most MaxPad.
MaxPad == 2

----------------------------------------------------------------------------
(* Exact arithmetic on floats <<n, d, r>> = (n/d)*sqrt(r). *)

Abs(x) == IF x < 0 THEN -x ELSE x

Sgn(x) == IF x < 0 THEN -1 ELSE IF x > 0 THEN 1 ELSE 0

RECURSIVE GCD(_, _)
GCD(a, b) == IF b = 0 THEN a ELSE GCD(b, a % b)

NaN == <<0, 0, 1>>
PosInf == <<1, 0, 1>>
NegInf == <<-1, 0, 1>>
Zero == <<0, 1, 1>>

IsNaN(x) == x[2] = 0 /\ x[1] = 0
IsInf(x) == x[2] = 0 /\ x[1] # 0
IsFinite(x) == x[2] # 0

\* (n/d)*sqrt(r) in lowest terms, d > 0; zero is <<0, 1, 1>>.
Surd(n, d, r) ==
    IF n = 0 THEN Zero
    ELSE LET g == GCD(Abs(n), Abs(d))
         IN  <<(Sgn(d) * n) \div g, Abs(d) \div g, r>>

Frac(n, d) == Surd(n, d, 1)

\* The largest m with m*m dividing n (n >= 1), scanning m upward.
RECURSIVE SquareScan(_, _, _)
SquareScan(n, m, best) ==
    IF m * m > n THEN best
    ELSE SquareScan(n, m + 1, IF n % (m * m) = 0 THEN m ELSE best)

SquarePart(n) == SquareScan(n, 1, 1)

FNeg(x) == <<-x[1], x[2], x[3]>>

\* x + y of IEEE 754; finite operands are rationals here.
FAdd(x, y) ==
    IF IsNaN(x) \/ IsNaN(y) THEN NaN
    ELSE IF IsInf(x) /\ IsInf(y) THEN (IF x = y THEN x ELSE NaN)
    ELSE IF IsInf(x) THEN x
    ELSE IF IsInf(y) THEN y
    ELSE Frac(x[1] * y[2] + y[1] * x[2], x[2] * y[2])

\* x * y of IEEE 754: sqrt(r1)*sqrt(r2) = m*sqrt(r) with r1*r2 = m*m*r.
FMul(x, y) ==
    IF IsNaN(x) \/ IsNaN(y) THEN NaN
    ELSE IF IsInf(x) \/ IsInf(y)
         THEN (IF x[1] = 0 \/ y[1] = 0 THEN NaN
               ELSE IF Sgn(x[1]) * Sgn(y[1]) > 0 THEN PosInf ELSE NegInf)
    ELSE LET m == SquarePart(x[3] * y[3])
         IN  Surd(x[1] * y[1] * m, x[2] * y[2], (x[3] * y[3]) \div (m * m))

\* x / y of IEEE 754: 0/0 is NaN, x/0 is an infinity;
\* 1 / ((n/d)*sqrt(r)) = (d/(n*r))*sqrt(r).
FDiv(x, y) ==
    IF IsNaN(x) \/ IsNaN(y) THEN NaN
    ELSE IF IsInf(y) THEN (IF IsInf(x) THEN NaN ELSE Zero)
    ELSE IF y[1] = 0
         THEN (IF x[1] = 0 THEN NaN
               ELSE IF x[1] > 0 THEN PosInf ELSE NegInf)
    ELSE IF IsInf(x) THEN (IF Sgn(x[1]) * Sgn(y[1]) > 0 THEN PosInf ELSE NegInf)
    ELSE FMul(x, Surd(y[2], y[1] * y[3], y[3]))

\* sqrt(n/d) = sqrt(n*d)/d for a rational n/d.
FSqrt(x) ==
    IF IsNaN(x) \/ x[1] < 0 THEN NaN
    ELSE IF IsInf(x) THEN PosInf
    ELSE IF x[1] = 0 THEN Zero
    ELSE LET m == SquarePart(x[1] * x[2])
         IN  Surd(m, x[2], (x[1] * x[2]) \div (m * m))

\* a/b <= c/d for b, d > 0, by integer parts and then the remainders'
\* reciprocals (no product is formed, so 1e-9 does not overflow).
RECURSIVE FracLe(_, _, _, _)
FracLe(a, b, c, d) ==
    IF a \div b # c \div d THEN a \div b < c \div d
    ELSE IF a % b = 0 THEN TRUE
    ELSE IF c % d = 0 THEN FALSE
    ELSE FracLe(d, c % d, b, a % b)

\* x <= y on finite rationals.
FLe(x, y) == FracLe(x[1], x[2], y[1], y[2])

\* tf.float32.max (3.4028235e38), kept symbolic: no number the model
\* computes exceeds it, and only +Inf lies above it.
float32_max == <<2, 0, 1>>

\* The lower clamp of mean_pooling, 1e-9.
clip_value_min == <<1, 1000000000, 1>>

\* tf.clip_by_value on one element: maximum(minimum(x, hi), lo).
ClipValue(x, lo, hi) ==
    IF IsNaN(x) THEN NaN
    ELSE LET t == IF x = PosInf THEN hi ELSE x
         IN  IF t = hi THEN hi
             ELSE IF t = NegInf \/ FLe(t, lo) THEN lo ELSE t

----------------------------------------------------------------------------
(* Tensors and the TensorFlow operations the layer uses. *)

Tensor(dtype, v) == [dtype |-> dtype, v |-> v, err |-> ""]

\* An op that raised: no tensor comes back, the exception propagates.
Raised(kind) == [dtype |-> "none", v |-> <<>>, err |-> kind]

IsRaised(x) == x.err # ""

FloatTypes == {"float16", "float32", "float64"}

Shape2(v) == <<Len(v), Len(v[1])>>

Shape3(v) == <<Len(v), Len(v[1]), Len(v[1][1])>>

\* tf.shape of a rank-3 tensor.
tf_shape(x) == Shape3(x.v)

\* tf.expand_dims(x, -1) of a rank-2 tensor: (B, T) -> (B, T, 1).
expand_dims(x) ==
    Tensor(x.dtype,
           [b \in 1..Len(x.v) |-> [t \in 1..Len(x.v[b]) |-> <<x.v[b][t]>>]])

\* tf.broadcast_to of a rank-3 tensor: a dimension of the input must equal
\* the target's or be 1 (and is then repeated); anything else raises.
broadcast_to(x, shape) ==
    LET s == Shape3(x.v)
    IN  IF \A i \in 1..3 : s[i] = shape[i] \/ s[i] = 1
        THEN Tensor(x.dtype,
                    [b \in 1..shape[1] |-> [t \in 1..shape[2] |-> [h \in 1..shape[3] |->
                        x.v[IF s[1] = 1 THEN 1 ELSE b]
                           [IF s[2] = 1 THEN 1 ELSE t]
                           [IF s[3] = 1 THEN 1 ELSE h]]]])
        ELSE Raised("InvalidArgumentError: incompatible shapes")

\* tf.cast of a rank-3 tensor: an integer m becomes the float m/1, a float
\* keeps its value (rounding is not modelled) under the new dtype.
tf_cast(x, dtype) ==
    IF IsRaised(x) THEN x
    ELSE IF x.dtype \in FloatTypes
    THEN Tensor(dtype, x.v)
    ELSE Tensor(dtype,
                [b \in 1..Len(x.v) |-> [t \in 1..Len(x.v[b]) |->
                    [h \in 1..Len(x.v[b][t]) |-> Frac(x.v[b][t][h], 1)]]])

\* x * y with the left operand converted to the dtype of the right one first.
tf_multiply_promote(x, y) ==
    IF IsRaised(x) THEN x
    ELSE IF IsRaised(y) THEN y
    ELSE LET c == tf_cast(x, y.dtype)
         IN  Tensor(y.dtype,
                    [b \in 1..Len(c.v) |-> [t \in 1..Len(c.v[b]) |->
                        [h \in 1..Len(c.v[b][t]) |-> FMul(c.v[b][t][h], y.v[b][t][h])]]])

\* x * y on rank-3 tensors of one shape: TensorFlow refuses operands of
\* different dtypes, it does not promote.
tf_multiply(x, y) ==
    IF IsRaised(x) THEN x
    ELSE IF IsRaised(y) THEN y
    ELSE IF x.dtype # y.dtype
    THEN Raised("InvalidArgumentError: cannot compute Mul, dtypes differ")
    ELSE IF x.dtype \notin FloatTypes
    THEN Tensor(x.dtype,
                [b \in 1..Len(x.v) |-> [t \in 1..Len(x.v[b]) |->
                    [h \in 1..Len(x.v[b][t]) |-> x.v[b][t][h] * y.v[b][t][h]]]])
    ELSE Tensor(x.dtype,
                [b \in 1..Len(x.v) |-> [t \in 1..Len(x.v[b]) |->
                    [h \in 1..Len(x.v[b][t]) |-> FMul(x.v[b][t][h], y.v[b][t][h])]]])

\* Sum over t = 1..n of v[b][t][h], left to right.
RECURSIVE SumAxis1(_, _, _, _)
SumAxis1(v, b, h, n) ==
    IF n = 1 THEN v[b][1][h]
    ELSE FAdd(SumAxis1(v, b, h, n - 1), v[b][n][h])

\* Sum over t = 1..n of v[b][t][h]: over the hidden axis instead of the sequence axis.
SumAxis2(v, b, t) ==
    LET F[n \in 1..Len(v[b][t])] ==
            IF n = 1 THEN v[b][t][1] ELSE FAdd(F[n - 1], v[b][t][n])
    IN  F[Len(v[b][t])]

\* tf.math.reduce_sum(x, axis=2): (B, T, H) -> (B, T).
reduce_sum_axis2(x) ==
    IF IsRaised(x) THEN x
    ELSE Tensor(x.dtype,
                [b \in 1..Len(x.v) |-> [t \in 1..Len(x.v[b]) |->
                    SumAxis2(x.v, b, t)]])

\* tf.math.reduce_sum(x, axis=1) of a rank-3 float tensor: (B, T, H) -> (B, H).
reduce_sum(x) ==
    IF IsRaised(x) THEN x
    ELSE Tensor(x.dtype,
                [b \in 1..Len(x.v) |-> [h \in 1..Len(x.v[b][1]) |->
                    SumAxis1(x.v, b, h, Len(x.v[b]))]])

\* No clamp at all: the tensor as it is.
clip_nothing(x, lo, hi) == x

\* tf.clip_by_value on a rank-2 tensor.
clip_by_value(x, lo, hi) ==
    IF IsRaised(x) THEN x
    ELSE Tensor(x.dtype,
                [b \in 1..Len(x.v) |-> [h \in 1..Len(x.v[b]) |->
                    ClipValue(x.v[b][h], lo, hi)]])

\* x / y on rank-2 tensors of one shape and one dtype.
tf_truediv(x, y) ==
    IF IsRaised(x) THEN x
    ELSE IF IsRaised(y) THEN y
    ELSE IF x.dtype # y.dtype
    THEN Raised("InvalidArgumentError: cannot compute RealDiv, dtypes differ")
    ELSE Tensor(x.dtype,
                [b \in 1..Len(x.v) |-> [h \in 1..Len(x.v[b]) |->
                    FDiv(x.v[b][h], y.v[b][h])]])

\* Sum over h = 1..n of row[h]^2, left to right.
RECURSIVE SumSquares(_, _)
SumSquares(row, n) ==
    IF n = 1 THEN FMul(row[1], row[1])
    ELSE FAdd(SumSquares(row, n - 1), FMul(row[n], row[n]))

\* tf.linalg.normalize(x, 2, axis=1) of a rank-2 tensor: the pair
\* <<x / norm, norm>> with norm = sqrt(sum of squares) of each row, kept as
\* a (B, 1) tensor.  There is no epsilon: a row of norm 0 is divided by 0.
linalg_normalize(x) ==
    LET norm == [b \in 1..Len(x.v) |-> <<FSqrt(SumSquares(x.v[b], Len(x.v[b])))>>]
    IN  <<Tensor(x.dtype,
                 [b \in 1..Len(x.v) |-> [h \in 1..Len(x.v[b]) |->
                     FDiv(x.v[b][h], norm[b][1])]]),
          Tensor(x.dtype, norm)>>

----------------------------------------------------------------------------
(* TFSentenceTransformer. *)

\* input_mask_expanded of mean_pooling: the mask with a trailing axis,
\* broadcast to the shape of the token embeddings and cast to tf.float32.
input_mask_expanded(output, attention_mask) ==
    tf_cast(broadcast_to(expand_dims(attention_mask), tf_shape(output[1])),
            "float32")

\* The divisor of mean_pooling: the mask summed over the sequence axis and
\* clipped into [1e-9, tf.float32.max].
\* Sum over b = 1..n of v[b][h].
RECURSIVE SumAxis0(_, _, _)
SumAxis0(v, h, n) ==
    IF n = 0 THEN Zero ELSE FAdd(SumAxis0(v, h, n - 1), v[n][h])

\* The divisor taken over the whole batch: the mask-1 positions of all rows.
pooling_denominator_batch(output, attention_mask) ==
    LET s == reduce_sum(input_mask_expanded(output, attention_mask))
    IN  clip_by_value(
            Tensor(s.dtype, [b \in 1..Len(s.v) |-> [h \in 1..Len(s.v[b]) |->
                                SumAxis0(s.v, h, Len(s.v))]]),
            clip_value_min, float32_max)

\* The divisor of a plain mean: the sequence length T, masked or not.
pooling_denominator_length(output, attention_mask) ==
    LET s == reduce_sum(input_mask_expanded(output, attention_mask))
    IN  Tensor(s.dtype, [b \in 1..Len(s.v) |-> [h \in 1..Len(s.v[b]) |->
                            Frac(Len(output[1].v[b]), 1)]])

pooling_denominator(output, attention_mask) ==
    clip_by_value(reduce_sum(input_mask_expanded(output, attention_mask)),
                  clip_value_min, float32_max)

\* The same pooling without the mask: the plain mean over all T positions.
mean_pooling_unmasked(output, attention_mask) ==
    LET token_embeddings == output[1]
        ones == Tensor("float32",
                       [b \in 1..Len(token_embeddings.v) |->
                           [h \in 1..Len(token_embeddings.v[b][1]) |->
                               Frac(Len(token_embeddings.v[b]), 1)]])
    IN  tf_truediv(reduce_sum(token_embeddings), ones)

\* mean_pooling(self, model_output, attention_mask)
mean_pooling(output, attention_mask) ==
    LET token_embeddings == output[1]
        mask == input_mask_expanded(output, attention_mask)
    IN  IF IsRaised(mask) THEN mask
        ELSE tf_truediv(reduce_sum(tf_multiply(token_embeddings, mask)),
                        pooling_denominator(output, attention_mask))

\* Normalisation by the L1 norm (ord = 1) of each row.
normalize_l1(e) ==
    LET AbsSum[b \in 1..Len(e.v)] ==
            LET F[n \in 1..Len(e.v[b])] ==
                    LET a == IF e.v[b][n][1] < 0 THEN FNeg(e.v[b][n]) ELSE e.v[b][n]
                    IN  IF n = 1 THEN a ELSE FAdd(F[n - 1], a)
            IN  F[Len(e.v[b])]
    IN  Tensor(e.dtype,
               [b \in 1..Len(e.v) |-> [h \in 1..Len(e.v[b]) |->
                   FDiv(e.v[b][h], AbsSum[b])]])

\* normalize(self, embeddings)
normalize(e) == linalg_normalize(e)[1]

\* inputs["attention_mask"] (notebook) or inputs.attention_mask (part_000):
\* a plain dict has no attribute attention_mask, a BatchEncoding has both.
GetAttentionMask(v, in) ==
    IF v = "part_000" /\ in.kind = "dict"
    THEN Raised("AttributeError: 'dict' object has no attribute 'attention_mask'")
    ELSE in.attention_mask

\* The branch taken whatever the flag.
if_always(flag) == TRUE

\* The branch taken on the first call of the layer only.
if_first_call(flag) == flag /\ history = <<>>

\* `if normalize:` of call.
if_normalize(flag) == flag

----------------------------------------------------------------------------
(* Inputs the model draws. *)

Variants == {"notebook", "part_000"}

\* Values of one hidden-state element.
Vals == {Frac(-1, 1), Frac(2, 1)}

Shapes ==
    {s \in (1..MaxB) \X (1..MaxT) \X (1..MaxH) : s[1] * s[2] * s[3] <= MaxCells}

Hidden(s) == [1..s[1] -> [1..s[2] -> [1..s[3] -> Vals]]]

Masks(b, t) == [1..b -> [1..t -> {0, 1}]]

\* The tokenizer's output as the notebooks hand it over: a BatchEncoding.
Encoding(kind, mask) ==
    [kind |-> kind, attention_mask |-> Tensor("int32", mask)]

NoTensor == [dtype |-> "none", v |-> <<>>, err |-> ""]

\* The worked example: tokens [1,1,1,1], [2,2,2,2], [9,9,9,9], mask [1,1,0].
ExampleHidden ==
    << << <<Frac(1, 1), Frac(1, 1), Frac(1, 1), Frac(1, 1)>>,
          <<Frac(2, 1), Frac(2, 1), Frac(2, 1), Frac(2, 1)>>,
          <<Frac(9, 1), Frac(9, 1), Frac(9, 1), Frac(9, 1)>> >> >>

ExampleMask == << <<1, 1, 0>> >>

\* Well-formed calls: float32 hidden states (B, T, H) and a mask (B, T).
ValidCalls ==
    {<<h, m>> : h \in {ExampleHidden}, m \in {ExampleMask}}
    \cup UNION {Hidden(s) \X Masks(s[1], s[2]) : s \in Shapes}

\* Tensor objects are numbered in the order they are created; 0 is no object.
\* `hidden` and `mask` are the tensors handed to the call, `embeddings` the
\* local of call, `result` what the caller holds.
NoRefs == [next |-> 1, calls |-> 0, hidden |-> 0, mask |-> 0, embeddings |-> 0,
           result |-> 0]

\* An op that hands back the tensor of the hidden states instead of a new one.
Alloc_reuse(r, name) == [r EXCEPT ![name] = r.hidden]

\* A TensorFlow op returns a new tensor object, which `name` is bound to.
Alloc(r, name) == [r EXCEPT ![name] = r.next, !.next = r.next + 1]

\* The caller hands hidden states and a mask made for this call; the local
\* of the call before is gone, its result is still held by the caller.
NewCall(r) ==
    [next |-> r.next + 2, calls |-> r.calls + 1, hidden |-> r.next,
     mask |-> r.next + 1, embeddings |-> 0, result |-> r.result]

InitCommon ==
    /\ pc = "call"
    /\ model_output = <<>>
    /\ embeddings = NoTensor
    /\ pooled = NoTensor
    /\ result = NoTensor
    /\ error = ""
    /\ stages = <<>>
    /\ history = <<>>
    /\ text = <<>>
    /\ tokenized = <<>>
    /\ refs = NewCall(NoRefs)

Init ==
    /\ variant = "notebook"
    /\ normalize_arg \in BOOLEAN
    /\ \E c \in ValidCalls :
          /\ last_hidden_state = Tensor("float32", c[1])
          /\ inputs = Encoding("BatchEncoding", c[2])
    /\ InitCommon

----------------------------------------------------------------------------
(* TFSentenceTransformer.call, one action per statement. *)

\* The forward pass inside a handler that raises an error of its own.
Forward_replaced ==
    /\ pc = "call"
    /\ stages' = Append(stages, "forward")
    /\ IF IsRaised(last_hidden_state)
       THEN /\ pc' = "raised"
            /\ error' = "RuntimeError: inference failed"
            /\ UNCHANGED model_output
       ELSE /\ pc' = "forwarded"
            /\ model_output' = <<last_hidden_state>>
            /\ UNCHANGED error
    /\ UNCHANGED <<refs, variant, inputs, normalize_arg, last_hidden_state, embeddings,
                   pooled, result, history, text, tokenized>>

\* model_output = self.model(inputs)
Forward ==
    /\ pc = "call"
    /\ stages' = Append(stages, "forward")
    /\ IF IsRaised(last_hidden_state)
       THEN /\ pc' = "raised"
            /\ error' = last_hidden_state.err
            /\ UNCHANGED model_output
       ELSE /\ pc' = "forwarded"
            /\ model_output' = <<last_hidden_state>>
            /\ UNCHANGED error
    /\ UNCHANGED <<refs, variant, inputs, normalize_arg, last_hidden_state, embeddings,
                   pooled, result, history, text, tokenized>>

\* embeddings = self.mean_pooling(model_output, inputs["attention_mask"])
MeanPooling ==
    /\ pc = "forwarded"
    /\ stages' = Append(stages, "mean_pooling")
    /\ LET mask == GetAttentionMask(variant, inputs)
           e == IF IsRaised(mask) THEN mask ELSE mean_pooling(model_output, mask)
       IN  IF IsRaised(e)
           THEN /\ pc' = "raised"
                /\ error' = e.err
                /\ UNCHANGED <<embeddings, pooled, refs>>
           ELSE /\ pc' = "pooled"
                /\ embeddings' = e
                /\ pooled' = e
                /\ refs' = Alloc(refs, "embeddings")
                /\ UNCHANGED error
    /\ UNCHANGED <<variant, inputs, normalize_arg, last_hidden_state, model_output,
                   result, history, text, tokenized>>

\* if normalize: embeddings = self.normalize(embeddings)
Normalize ==
    /\ pc = "pooled"
    /\ if_normalize(normalize_arg)
    /\ stages' = Append(stages, "normalize")
    /\ embeddings' = normalize(embeddings)
    /\ refs' = Alloc(refs, "embeddings")
    /\ pc' = "normalized"
    /\ UNCHANGED <<variant, inputs, normalize_arg, last_hidden_state, model_output,
                   pooled, result, error, history, text, tokenized>>

\* return embeddings
Return ==
    /\ \/ pc = "normalized"
       \/ pc = "pooled" /\ ~if_normalize(normalize_arg)
    /\ result' = embeddings
    /\ refs' = [refs EXCEPT !.result = refs.embeddings]
    /\ pc' = "returned"
    /\ history' = Append(history, [hidden |-> last_hidden_state,
                                   mask |-> inputs.attention_mask,
                                   normalize |-> normalize_arg,
                                   result |-> embeddings,
                                   ref |-> refs.embeddings])
    /\ UNCHANGED <<variant, inputs, normalize_arg, last_hidden_state, model_output,
                   embeddings, pooled, error, stages, text, tokenized>>

Next == Forward \/ MeanPooling \/ Normalize \/ Return

Spec == Init /\ [][Next]_vars

----------------------------------------------------------------------------
(* Calls whose mask need not have the shape of the hidden states. *)

\* One tensor of hidden states per shape: element (b, t, h) is b + t + h.
Ramp(s) == [b \in 1..s[1] |-> [t \in 1..s[2] |-> [h \in 1..s[3] |->
               Frac(b + t + h, 1)]]]

MaskShapes == {m \in (1..MaxB) \X (1..MaxT) : m[1] * m[2] <= MaxCells}

InitShape ==
    /\ variant = "notebook"
    /\ normalize_arg \in BOOLEAN
    /\ \E s \in Shapes, m \in MaskShapes :
          /\ last_hidden_state = Tensor("float32", Ramp(s))
          /\ \E mask \in Masks(m[1], m[2]) :
                inputs = Encoding("BatchEncoding", mask)
    /\ InitCommon

SpecShape == InitShape /\ [][Next]_vars

----------------------------------------------------------------------------
(* Calls on hidden states of each floating-point type. *)

\* Hidden states and masks of up to four elements.
SmallCalls ==
    UNION {Hidden(s) \X Masks(s[1], s[2]) :
              s \in {<<2, 2, 1>>, <<1, 2, 2>>, <<2, 1, 2>>, <<1, 1, 1>>}}

InitDtype ==
    /\ variant = "notebook"
    /\ normalize_arg \in BOOLEAN
    /\ \E c \in SmallCalls, dtype \in FloatTypes :
          /\ last_hidden_state = Tensor(dtype, c[1])
          /\ inputs = Encoding("BatchEncoding", c[2])
    /\ InitCommon

SpecDtype == InitDtype /\ [][Next]_vars

\* Hidden states that are not floating point: integers at the leaves. The
\* float32 calls are those the layer is built for.
IntTypes == {"int32", "int64"}

IntHidden(s) == [1..s[1] -> [1..s[2] -> [1..s[3] -> {-1, 2}]]]

IntCalls ==
    UNION {IntHidden(s) \X Masks(s[1], s[2]) :
              s \in {<<2, 2, 1>>, <<1, 2, 2>>, <<2, 1, 2>>, <<1, 1, 1>>}}

InitNonFloat ==
    /\ variant = "notebook"
    /\ normalize_arg \in BOOLEAN
    /\ \/ \E c \in IntCalls, dtype \in IntTypes :
             /\ last_hidden_state = Tensor(dtype, c[1])
             /\ inputs = Encoding("BatchEncoding", c[2])
       \/ \E c \in SmallCalls :
             /\ last_hidden_state = Tensor("float32", c[1])
             /\ inputs = Encoding("BatchEncoding", c[2])
    /\ InitCommon

SpecNonFloat == InitNonFloat /\ [][Next]_vars

----------------------------------------------------------------------------
(* Calls on batches of several rows. *)

\* Hidden states whose rows are constant: every element of row b is one value.
ConstRows(s) ==
    {[b \in 1..s[1] |-> [t \in 1..s[2] |-> [h \in 1..s[3] |-> r[b]]]] :
        r \in [1..s[1] -> Vals]}

\* Batches of two or three rows: all hidden states of the small shapes, and
\* constant rows for the longer ones; every mask of the shape.
BatchCalls ==
    UNION {Hidden(s) \X Masks(s[1], s[2]) :
              s \in {<<2, 1, 1>>, <<2, 1, 2>>, <<2, 2, 1>>, <<3, 1, 1>>}}
    \cup UNION {ConstRows(s) \X Masks(s[1], s[2]) :
              s \in {<<2, 3, 1>>, <<3, 2, 1>>, <<2, 2, 2>>}}

InitBatch ==
    /\ variant = "notebook"
    /\ normalize_arg \in BOOLEAN
    /\ \E c \in BatchCalls :
          /\ last_hidden_state = Tensor("float32", c[1])
          /\ inputs = Encoding("BatchEncoding", c[2])
    /\ InitCommon

SpecBatch == InitBatch /\ [][Next]_vars

----------------------------------------------------------------------------
(* Several calls of one TFSentenceTransformer object, one after the other. *)

\* The calls made: two sentences of two tokens, padded or not.
RepeatedCalls ==
    {<<h, m>> : h \in { << <<Frac(-1, 1)>>, <<Frac(2, 1)>> >>,
                        << <<Frac(2, 1)>>, <<Frac(2, 1)>> >> },
                m \in { <<1, 1>>, <<1, 0>> }}

InitCalls ==
    /\ variant \in Variants
    /\ pc = "idle"
    /\ inputs = <<>>
    /\ normalize_arg = "unset"
    /\ last_hidden_state = NoTensor
    /\ model_output = <<>>
    /\ embeddings = NoTensor
    /\ pooled = NoTensor
    /\ result = NoTensor
    /\ error = ""
    /\ stages = <<>>
    /\ history = <<>>
    /\ text = <<>>
    /\ tokenized = <<>>
    /\ refs = NoRefs

\* model(encoded_input, normalize=...): the layer is called again; the
\* locals of the call before are gone.
Invoke ==
    /\ pc \in {"idle", "returned"}
    /\ Len(history) < MaxCalls
    /\ \E c \in RepeatedCalls, flag \in BOOLEAN :
          /\ last_hidden_state' = Tensor("float32", <<c[1]>>)
          /\ inputs' = Encoding("BatchEncoding", <<c[2]>>)
          /\ normalize_arg' = flag
    /\ refs' = NewCall(refs)
    /\ pc' = "call"
    /\ model_output' = <<>>
    /\ embeddings' = NoTensor
    /\ pooled' = NoTensor
    /\ stages' = <<>>
    /\ UNCHANGED <<variant, result, error, history, text, tokenized>>

NextCalls == Invoke \/ Forward \/ MeanPooling \/ Normalize \/ Return

SpecCalls == InitCalls /\ [][NextCalls]_vars

----------------------------------------------------------------------------
(* The same layer object called again after calls that returned or raised. *)

\* Calls that raise in mean_pooling: two tokens, a mask of three.
MismatchedCalls ==
    {<<h, <<1, 1, 0>> >> : h \in { << <<Frac(-1, 1)>>, <<Frac(2, 1)>> >> }}

\* model(encoded_input, normalize=...) by a caller who caught what the call
\* before raised, if it raised.
Reinvoke ==
    /\ pc \in {"idle", "returned", "raised"}
    /\ refs.calls < MaxCalls
    /\ \E c \in RepeatedCalls \cup MismatchedCalls, flag \in BOOLEAN :
          /\ last_hidden_state' = Tensor("float32", <<c[1]>>)
          /\ inputs' = Encoding("BatchEncoding", <<c[2]>>)
          /\ normalize_arg' = flag
    /\ refs' = NewCall(refs)
    /\ pc' = "call"
    /\ model_output' = <<>>
    /\ embeddings' = NoTensor
    /\ pooled' = NoTensor
    /\ stages' = <<>>
    /\ error' = ""
    /\ UNCHANGED <<variant, result, history, text, tokenized>>

NextFrame == Reinvoke \/ Forward \/ MeanPooling \/ Normalize \/ Return

SpecFrame == InitCalls /\ [][NextFrame]_vars

----------------------------------------------------------------------------
(* E2ESentenceTransformer.call. *)

\* A sentence is its words; a batch of one or two sentences is passed.
Sentences == {<<7>>, <<7, 8>>}

Texts == UNION {[1..n -> Sentences] : n \in 1..2}

MaxOf(S) == CHOOSE x \in S : \A y \in S : y <= x

\* An element of the batch that the tokenizer cannot take: not a string.
NotAString == <<-1>>

TokenizerFails(batch) == \E b \in 1..Len(batch) : batch[b] = NotAString

\* TFBertTokenizer: one id per word, every sentence padded with id 0 to the
\* longest of the batch, the mask 1 on words and 0 on padding; a plain dict.
Tokenizer(batch) ==
    LET T == MaxOf({Len(batch[b]) : b \in 1..Len(batch)})
    IN  IF TokenizerFails(batch)
        THEN Raised("InvalidArgumentError: input must be a string tensor")
        ELSE
        [kind |-> "dict",
         input_ids |-> Tensor("int32",
             [b \in 1..Len(batch) |-> [t \in 1..T |->
                 IF t <= Len(batch[b]) THEN batch[b][t] ELSE 0]]),
         attention_mask |-> Tensor("int32",
             [b \in 1..Len(batch) |-> [t \in 1..T |->
                 IF t <= Len(batch[b]) THEN 1 ELSE 0]]),
         token_type_ids |-> Tensor("int32",
             [b \in 1..Len(batch) |-> [t \in 1..T |-> 0]])]

InitE2E ==
    /\ variant \in Variants
    /\ pc = "e2e_call"
    /\ text \in Texts
    /\ \E s \in Shapes :
          /\ s[1] = Len(text)
          /\ s[2] = Len(Tokenizer(text).input_ids.v[1])
          /\ \E h \in Hidden(s) : last_hidden_state = Tensor("float32", h)
    /\ inputs = <<>>
    /\ normalize_arg = "unset"
    /\ model_output = <<>>
    /\ embeddings = NoTensor
    /\ pooled = NoTensor
    /\ result = NoTensor
    /\ error = ""
    /\ stages = <<>>
    /\ history = <<>>
    /\ tokenized = <<>>
    /\ refs = NewCall(NoRefs)

\* tokenized = self.tokenizer(inputs)
Tokenize ==
    /\ pc = "e2e_call"
    /\ stages' = Append(stages, "tokenizer")
    /\ LET t == Tokenizer(text)
       IN  IF TokenizerFails(text)
           THEN /\ pc' = "raised"
                /\ error' = t.err
                /\ UNCHANGED tokenized
           ELSE /\ pc' = "tokenized"
                /\ tokenized' = t
                /\ UNCHANGED error
    /\ UNCHANGED <<refs, variant, inputs, normalize_arg, last_hidden_state, model_output,
                   embeddings, pooled, result, history, text>>

\* Keras Layer.__call__ as self.model(tokenized) reaches it (notebook): the
\* dict is the first argument of call, normalize keeps its default True.
\* As self.model(**tokenized) reaches it (part_000): only keyword arguments
\* input_ids, attention_mask, token_type_ids, none of them `inputs`.
LayerCall(v, tok) ==
    IF v = "part_000"
    THEN [ok |-> FALSE, inputs |-> <<>>, normalize |-> "unset",
          err |-> "ValueError: The first argument to Layer.call must always be passed."]
    ELSE [ok |-> TRUE, inputs |-> tok, normalize |-> TRUE, err |-> ""]

\* return self.model(tokenized): the call of the TFSentenceTransformer begins.
InvokeModel ==
    /\ pc = "tokenized"
    /\ LET c == LayerCall(variant, tokenized)
       IN  IF c.ok
           THEN /\ pc' = "call"
                /\ inputs' = c.inputs
                /\ normalize_arg' = c.normalize
                /\ UNCHANGED error
           ELSE /\ pc' = "raised"
                /\ error' = c.err
                /\ UNCHANGED <<inputs, normalize_arg>>
    /\ UNCHANGED <<refs, variant, last_hidden_state, model_output, embeddings, pooled,
                   result, stages, history, text, tokenized>>

\* return self.model(tokenized): what the layer returned is returned.
E2EReturn ==
    /\ pc = "returned"
    /\ pc' = "e2e_returned"
    /\ UNCHANGED <<refs, variant, inputs, normalize_arg, last_hidden_state, model_output,
                   embeddings, pooled, result, error, stages, history, text,
                   tokenized>>

NextE2E ==
    Tokenize \/ InvokeModel \/ Forward \/ MeanPooling \/ Normalize \/ Return
        \/ E2EReturn

SpecE2E == InitE2E /\ [][NextE2E]_vars

----------------------------------------------------------------------------
(* E2ESentenceTransformer.call when the tokenizer or the forward pass fails. *)

\* What the forward pass of the wrapped model may raise.
ModelFailures == {Raised("ResourceExhaustedError: OOM when allocating tensor"),
                  Raised("InvalidArgumentError: indices are out of range")}

\* Batches with an element that is not a string, next to the good ones.
BadTexts == UNION {{b \in [1..n -> Sentences \cup {NotAString}] :
                       \E i \in 1..n : b[i] = NotAString} : n \in 1..2}

\* The tokenizer fails before the model is asked; else the model answers with
\* hidden states of the tokenized shape, or fails.
InitE2EFail ==
    /\ variant \in Variants
    /\ pc = "e2e_call"
    /\ text \in Texts \cup BadTexts
    /\ IF TokenizerFails(text)
       THEN last_hidden_state = NoTensor
       ELSE \/ last_hidden_state \in ModelFailures
            \/ \E s \in Shapes :
                  /\ s[1] = Len(text)
                  /\ s[2] = Len(Tokenizer(text).input_ids.v[1])
                  /\ \E h \in Hidden(s) : last_hidden_state = Tensor("float32", h)
    /\ inputs = <<>>
    /\ normalize_arg = "unset"
    /\ model_output = <<>>
    /\ embeddings = NoTensor
    /\ pooled = NoTensor
    /\ result = NoTensor
    /\ error = ""
    /\ stages = <<>>
    /\ history = <<>>
    /\ tokenized = <<>>
    /\ refs = NewCall(NoRefs)

SpecE2EFail == InitE2EFail /\ [][NextE2E]_vars

----------------------------------------------------------------------------
(* Properties. *)

\* The attention mask and the hidden states of the running call.
MaskV == inputs.attention_mask.v
HiddenV == last_hidden_state.v

\* Number of mask-1 positions of a mask row.
Ones(row) == Cardinality({t \in 1..Len(row) : row[t] = 1})

\* Sum of f over the finite set S of positions.
RECURSIVE SumOver(_, _)
SumOver(S, f) ==
    IF S = {} THEN Zero
    ELSE LET t == CHOOSE x \in S : \A y \in S : x <= y
         IN  FAdd(f[t], SumOver(S \ {t}, f))

\* The mean of the token vectors of row b at its mask-1 positions, in
\* hidden dimension h.
MaskedMean(b, h) ==
    LET S == {t \in 1..Len(MaskV[b]) : MaskV[b][t] = 1}
    IN  FDiv(SumOver(S, [t \in S |-> HiddenV[b][t][h]]), Frac(Cardinality(S), 1))

\* The hidden states with the element at (b, t, h) replaced by x.
HiddenWith(b, t, h, x) == [HiddenV EXCEPT ![b][t][h] = x]

\* Values to put at masked positions.
OtherVals == {Frac(7, 1), Zero}

\* C1: a row with k >= 1 mask-1 positions pools, in every hidden dimension,
\* to the sum of its token embeddings at the mask-1 positions divided by k,
\* and the pooled row stays the same when an element at a mask-0 position
\* of the row is changed.
C1_MaskedMean ==
    pc = "pooled" =>
        \A b \in 1..Len(MaskV) :
            Ones(MaskV[b]) >= 1 =>
                /\ \A h \in 1..Len(embeddings.v[b]) :
                       embeddings.v[b][h] = MaskedMean(b, h)
                /\ \A t \in 1..Len(MaskV[b]) :
                       MaskV[b][t] = 0 =>
                           \A h \in 1..Len(HiddenV[b][t]), x \in OtherVals :
                               mean_pooling(
                                   <<Tensor("float32", HiddenWith(b, t, h, x))>>,
                                   inputs.attention_mask).v[b] = embeddings.v[b]

\* The worked example is pooled: [1.5, 1.5, 1.5, 1.5].
C1_Witness ==
    /\ pc = "pooled"
    /\ HiddenV = ExampleHidden
    /\ MaskV = ExampleMask
    /\ embeddings.v = << <<Frac(3, 2), Frac(3, 2), Frac(3, 2), Frac(3, 2)>> >>

\* C2: a row whose mask is all zeros does not make the pooling fail; the
\* divisor of every row is its count of mask-1 positions, replaced by 1e-9
\* when that count is 0, and the pooled all-zero-mask row is the zero vector.
C2_ZeroMaskRow ==
    /\ pc # "raised"
    /\ pc = "pooled" =>
        LET den == pooling_denominator(model_output, inputs.attention_mask)
        IN  \A b \in 1..Len(MaskV) : \A h \in 1..Len(embeddings.v[b]) :
                /\ den.v[b][h] = IF Ones(MaskV[b]) = 0 THEN clip_value_min
                                 ELSE Frac(Ones(MaskV[b]), 1)
                /\ Ones(MaskV[b]) = 0 => embeddings.v[b][h] = Zero

\* A fully masked row next to a row with tokens has been pooled to zeros.
C2_Witness ==
    /\ pc = "pooled"
    /\ \E b, c \in 1..Len(MaskV) :
           /\ Ones(MaskV[b]) = 0
           /\ Ones(MaskV[c]) >= 1
           /\ \A h \in 1..Len(embeddings.v[b]) : embeddings.v[b][h] = Zero

IsZeroRow(row) == \A h \in 1..Len(row) : row[h] = Zero

\* C3: with normalize = true the call does not raise, and a row whose pooled
\* vector has norm 0 comes back as numbers (the zero vector), never NaN.
C3_ZeroNormSafe ==
    /\ pc # "raised"
    /\ pc = "returned" /\ normalize_arg =>
           \A b \in 1..Len(result.v) :
               IsZeroRow(pooled.v[b]) =>
                   \A h \in 1..Len(result.v[b]) : IsFinite(result.v[b][h])

\* C5: with normalize = true a row whose pooled vector is not zero comes
\* back with squared components summing to 1 and as a positive multiple of
\* the pooled row.
C5_UnitNorm ==
    pc = "returned" /\ normalize_arg =>
        \A b \in 1..Len(result.v) :
            ~IsZeroRow(pooled.v[b]) =>
                /\ SumSquares(result.v[b], Len(result.v[b])) = Frac(1, 1)
                /\ \A h \in 1..Len(result.v[b]) :
                       /\ Sgn(result.v[b][h][1]) = Sgn(pooled.v[b][h][1])
                       /\ \A g \in 1..Len(result.v[b]) :
                              FMul(result.v[b][h], pooled.v[b][g])
                                  = FMul(result.v[b][g], pooled.v[b][h])

\* The worked example, normalised: [0.5, 0.5, 0.5, 0.5].
C5_Witness ==
    /\ pc = "returned"
    /\ normalize_arg
    /\ HiddenV = ExampleHidden
    /\ MaskV = ExampleMask
    /\ result.v = << <<Frac(1, 2), Frac(1, 2), Frac(1, 2), Frac(1, 2)>> >>

\* C6: with normalize = false the call returns what mean_pooling gave, and
\* the normalize step did not run.
C6_NoNormalize ==
    pc = "returned" /\ ~normalize_arg =>
        /\ result = pooled
        /\ stages = <<"forward", "mean_pooling">>

\* A call with normalize = false returned a row that is not of unit length.
C6_Witness ==
    /\ pc = "returned"
    /\ ~normalize_arg
    /\ \E b \in 1..Len(result.v) :
           SumSquares(result.v[b], Len(result.v[b])) # Frac(1, 1)

\* C7: a call on hidden states (B, T, H) and a mask (B, T) returns, and
\* returns B rows of H numbers each, with and without normalisation.
C7_OutputShape ==
    /\ pc # "raised"
    /\ pc = "returned" =>
           /\ Len(result.v) = Len(HiddenV)
           /\ \A b \in 1..Len(result.v) : Len(result.v[b]) = Len(HiddenV[b][1])

\* A normalised call on hidden states (2, 3, 1) returned 2 rows of 1 number.
C7_Witness ==
    /\ pc = "returned"
    /\ Len(HiddenV) = 2
    /\ Len(HiddenV[1]) = 3
    /\ Len(HiddenV[1][1]) = 1
    /\ Shape2(result.v) = <<2, 1>>
    /\ normalize_arg

\* C4: whenever the mask's shape (B', T') differs from the leading two
\* dimensions (B, T) of the hidden states, pooling raises and no embedding
\* is pooled or returned.
C4_ShapeMismatchFails ==
    pc \in {"pooled", "normalized", "returned"} =>
        Shape2(MaskV) = <<Len(HiddenV), Len(HiddenV[1])>>

\* C8: two calls of the layer with the same hidden states, mask and
\* normalize flag returned the same embeddings, whatever was called before
\* or between them.
C8_Deterministic ==
    \A i \in 1..Len(history) : \A j \in 1..Len(history) :
        (/\ history[i].hidden = history[j].hidden
         /\ history[i].mask = history[j].mask
         /\ history[i].normalize = history[j].normalize)
            => history[i].result = history[j].result

\* The first and the third call had the same arguments, the second had
\* others, and the first and the third returned the same embeddings.
C8_Witness ==
    /\ Len(history) = 3
    /\ history[1].hidden = history[3].hidden
    /\ history[1].mask = history[3].mask
    /\ history[1].normalize = history[3].normalize
    /\ history[1].normalize
    /\ \/ history[2].hidden # history[1].hidden
       \/ history[2].mask # history[1].mask
    /\ history[2].result # history[1].result
    /\ history[1].result = history[3].result

\* C9: for hidden states of any floating-point type the mask is cast to
\* that type, pooling does not raise, and the embeddings pooled and returned
\* have the type of the hidden states.
C9_AnyFloatType ==
    last_hidden_state.dtype \in FloatTypes =>
        /\ pc # "raised"
        /\ pc \in {"forwarded", "pooled", "normalized", "returned"} =>
               input_mask_expanded(model_output, inputs.attention_mask).dtype
                   = last_hidden_state.dtype
        /\ pc \in {"pooled", "normalized"} =>
               embeddings.dtype = last_hidden_state.dtype
        /\ pc = "returned" => result.dtype = last_hidden_state.dtype

\* C10: in every variant a call of E2ESentenceTransformer ends by returning,
\* having run tokenizer, forward pass, pooling and normalisation once each in
\* that order, and returns what the TFSentenceTransformer gives for the
\* tokenizer's output.
C10_SequentialComposition ==
    /\ pc # "raised"
    /\ pc = "e2e_returned" =>
           /\ stages = <<"tokenizer", "forward", "mean_pooling", "normalize">>
           /\ tokenized = Tokenizer(text)
           /\ result = normalize(mean_pooling(<<last_hidden_state>>,
                                              tokenized.attention_mask))


\* C11: in the fused layer a failure of the tokenizer or of the forward pass
\* reaches the caller as it was raised: the error is the one the failing stage
\* raised, the failing stage is the last stage that ran and ran once, and no
\* embedding is returned or computed.
C11_FailurePropagates ==
    /\ (TokenizerFails(text) /\ stages # <<>>) =>
           /\ pc = "raised"
           /\ error = Tokenizer(text).err
           /\ stages = <<"tokenizer">>
           /\ tokenized = <<>> /\ result = NoTensor /\ embeddings = NoTensor
    /\ (IsRaised(last_hidden_state) /\ \E i \in 1..Len(stages) : stages[i] = "forward") =>
           /\ pc = "raised"
           /\ error = last_hidden_state.err
           /\ stages = <<"tokenizer", "forward">>
           /\ model_output = <<>> /\ result = NoTensor /\ embeddings = NoTensor

C11_Witness ==
    /\ IsRaised(last_hidden_state)
    /\ pc = "raised"
    /\ stages = <<"tokenizer", "forward">>
    /\ error = "ResourceExhaustedError: OOM when allocating tensor"

C11_WitnessTokenizer ==
    /\ TokenizerFails(text)
    /\ Len(text) = 2
    /\ pc = "raised"
    /\ error = "InvalidArgumentError: input must be a string tensor"

\* C12: when the hidden states are not of a floating-point type the call
\* fails in mean pooling with the error TensorFlow raises; the values are not
\* converted, nothing is pooled and no embedding is returned.
C12_NonFloatFails ==
    last_hidden_state.dtype \notin FloatTypes =>
        /\ pc \in {"call", "forwarded", "raised"}
        /\ pc = "raised" =>
               /\ stages = <<"forward", "mean_pooling">>
               /\ error = "InvalidArgumentError: cannot compute Mul, dtypes differ"
        /\ embeddings = NoTensor /\ pooled = NoTensor /\ result = NoTensor
        /\ history = <<>>

C12_Witness ==
    /\ last_hidden_state.dtype = "int32"
    /\ Shape3(last_hidden_state.v) = <<2, 2, 1>>
    /\ pc = "raised"
    /\ error # ""

\* C13: no step of a call, returning or raising, changes the hidden states,
\* the attention mask, the tensor objects they are, the layer itself or what
\* earlier calls returned; and what a call returns is a tensor object that is
\* neither one of its inputs nor the object an earlier call returned.
C13_NoSideEffects ==
    [][/\ variant' = variant
       /\ pc \notin {"idle", "returned", "raised"} =>
              /\ last_hidden_state' = last_hidden_state
              /\ inputs' = inputs
              /\ refs'.hidden = refs.hidden /\ refs'.mask = refs.mask
              /\ \A i \in 1..Len(history) : history'[i] = history[i]
       /\ pc' = "returned" =>
              /\ refs'.result # 0
              /\ refs'.result \notin {refs'.hidden, refs'.mask}
              /\ \A i \in 1..Len(history) : history[i].ref # refs'.result
              /\ \A i \in 1..Len(history') : \A j \in 1..Len(history') :
                     i # j => history'[i].ref # history'[j].ref]_vars

\* The third call returned the value the first returned, as another object;
\* the second call raised.
C13_Witness ==
    /\ pc = "returned"
    /\ refs.calls = 3
    /\ Len(history) = 2
    /\ history[1].result = history[2].result
    /\ history[1].ref # history[2].ref
    /\ refs.result = history[2].ref

\* Row i of the running call as a batch of its own: hidden states and mask.
RowAlone(i) == <<Tensor(last_hidden_state.dtype, <<HiddenV[i]>>),
                Tensor(inputs.attention_mask.dtype, <<MaskV[i]>>)>>

\* The mask with row j fully masked; the hidden states with row j set to x.
MaskWithRowMasked(j) == [MaskV EXCEPT ![j] = [t \in 1..Len(MaskV[j]) |-> 0]]
HiddenWithRow(j, x) ==
    [HiddenV EXCEPT ![j] = [t \in 1..Len(HiddenV[j]) |->
                               [h \in 1..Len(HiddenV[j][t]) |-> x]]]

\* C15: every row of the output, pooled and normalised, is what the row gives
\* as a batch of its own, and stays the same when another row is fully masked
\* or given other token embeddings; an all-zero-mask row pools to zeros and an
\* all-ones-mask row to the mean of its tokens, whatever rows are next to them.
C15_RowsIndependent ==
    /\ pc = "pooled" =>
           \A i \in 1..Len(MaskV) :
               /\ pooled.v[i] = mean_pooling(<<RowAlone(i)[1]>>, RowAlone(i)[2]).v[1]
               /\ Ones(MaskV[i]) = 0 => IsZeroRow(pooled.v[i])
               /\ Ones(MaskV[i]) = Len(MaskV[i]) =>
                      \A h \in 1..Len(pooled.v[i]) : pooled.v[i][h] = MaskedMean(i, h)
               /\ \A j \in 1..Len(MaskV) \ {i} :
                      /\ mean_pooling(model_output,
                             Tensor("int32", MaskWithRowMasked(j))).v[i] = pooled.v[i]
                      /\ mean_pooling(<<Tensor("float32", HiddenWithRow(j, Frac(7, 1)))>>,
                             inputs.attention_mask).v[i] = pooled.v[i]
    /\ pc = "returned" /\ normalize_arg =>
           \A i \in 1..Len(MaskV) :
               /\ result.v[i] =
                      normalize(mean_pooling(<<RowAlone(i)[1]>>, RowAlone(i)[2])).v[1]
               /\ \A j \in 1..Len(MaskV) \ {i} :
                      normalize(mean_pooling(model_output,
                          Tensor("int32", MaskWithRowMasked(j)))).v[i] = result.v[i]

\* A batch of a fully masked row [0, 0, 0] and a fully unmasked row
\* [1, 1, 1], each row constant: pooled to [0] and to the second row's value.
C15_Witness ==
    /\ pc = "pooled"
    /\ MaskV = << <<0, 0, 0>>, <<1, 1, 1>> >>
    /\ HiddenV = << << <<Frac(2, 1)>>, <<Frac(2, 1)>>, <<Frac(2, 1)>> >>,
                    << <<Frac(-1, 1)>>, <<Frac(-1, 1)>>, <<Frac(-1, 1)>> >> >>
    /\ pooled.v = << <<Zero>>, <<Frac(-1, 1)>> >>

\* Values put at padding positions.
PadVals == {Frac(7, 1), Frac(-1, 1)}

\* The running call's hidden states and mask with k positions appended to
\* every row: embedding x in every dimension, mask 0.
PadHidden(k, x) ==
    [b \in 1..Len(HiddenV) |->
        HiddenV[b] \o [t \in 1..k |-> [h \in 1..Len(HiddenV[b][1]) |-> x]]]
PadMask(k) == [b \in 1..Len(MaskV) |-> MaskV[b] \o [t \in 1..k |-> 0]]

\* A mask row as padding makes it: ones, then zeros.
IsPrefixMask(row) == \A t \in 1..Len(row) : row[t] = IF t <= Ones(row) THEN 1 ELSE 0

\* Row b without its padding, as a batch of its own.
Unpadded(b) ==
    <<Tensor("float32", <<SubSeq(HiddenV[b], 1, Ones(MaskV[b]))>>),
      Tensor("int32", <<SubSeq(MaskV[b], 1, Ones(MaskV[b]))>>)>>

\* C16: for a row with a mask-1 position, the pooled row and the normalised
\* row are what the call gives for the same batch with mask-0 positions of any
\* values appended, and what the row gives alone and without its padding.
C16_PaddingInvariant ==
    /\ pc = "pooled" =>
           \A b \in 1..Len(MaskV) :
               Ones(MaskV[b]) >= 1 =>
                   /\ \A k \in 1..MaxPad, x \in PadVals :
                          mean_pooling(<<Tensor("float32", PadHidden(k, x))>>,
                              Tensor("int32", PadMask(k))).v[b] = pooled.v[b]
                   /\ IsPrefixMask(MaskV[b]) =>
                          mean_pooling(<<Unpadded(b)[1]>>, Unpadded(b)[2]).v[1]
                              = pooled.v[b]
    /\ pc = "returned" /\ normalize_arg =>
           \A b \in 1..Len(MaskV) :
               Ones(MaskV[b]) >= 1 =>
                   /\ \A k \in 1..MaxPad, x \in PadVals :
                          normalize(mean_pooling(<<Tensor("float32", PadHidden(k, x))>>,
                              Tensor("int32", PadMask(k)))).v[b] = result.v[b]
                   /\ IsPrefixMask(MaskV[b]) =>
                          normalize(mean_pooling(<<Unpadded(b)[1]>>,
                              Unpadded(b)[2])).v[1] = result.v[b]

\* A sentence of one token padded to the length of its neighbour: the padded
\* position holds another value, and the row pooled to its one token.
C16_Witness ==
    /\ pc = "pooled"
    /\ MaskV = << <<1, 1>>, <<1, 0>> >>
    /\ HiddenV[2] = << <<Frac(2, 1)>>, <<Frac(-1, 1)>> >>
    /\ pooled.v[2] = <<Frac(2, 1)>>

============================================================================
